---- MODULE Spec2Model ----
(***************************************************************************)
(* A model of herepy.RoutingApi (src/herepy/routing_api.py): the object's  *)
(* fields, the six public route operations, the credential setter and the  *)
(* shared GET-and-dispatch routine __get.  A route operation blocks in     *)
(* requests.get; the model shows that as a request in flight (pc =         *)
(* "waiting") that the transport's reply completes.  The weather client of *)
(* the test file is modelled from the specification, its code not being    *)
(* part of the sources.                                                    *)
(*                                                                         *)
(* Python strings are TLA+ strings; Python values of mixed type are tagged *)
(* records; a dict is a function from its keys.                            *)
(***************************************************************************)
EXTENDS Integers, Sequences, FiniteSets, TLC

VARIABLES
    _app_id,      \* RoutingApi._app_id
    _app_code,    \* RoutingApi._app_code
    _timeout,     \* RoutingApi._timeout
    defaults,     \* the default `modes` list object of each route operation
    ctor,         \* history: the arguments the constructor was called with
    supplied,     \* history: the credential pair most recently supplied
    pc,           \* "idle", or "waiting" while a call blocks in requests.get
    call,         \* the operation in progress and its arguments
    request,      \* the GET in flight: url, params, timeout
    caller,       \* name of the public operation that last called __get
    reply,        \* what the transport answered to the last GET
    outcome,      \* what the last call returned or raised
    modes_in,     \* argument of __prepare_mode_values (SpecModes)
    mode_values   \* its result (SpecModes)

vars == <<_app_id, _app_code, _timeout, defaults, ctor, supplied, pc, call,
          request, caller, reply, outcome, modes_in, mode_values>>

-----------------------------------------------------------------------------
(* Python values *)

PyNone == [t |-> "none"]
PyInt(n) == [t |-> "int", i |-> n]
PyBool(b) == [t |-> "bool", b |-> b]
PyStr(s) == [t |-> "str", s |-> s]
PyDict(d) == [t |-> "dict", d |-> d]
PyList(items) == [t |-> "list", items |-> items]

\* Python truth value, as `if timeout:` takes it.
Truthy(v) ==
    CASE v.t = "none" -> FALSE
      [] v.t = "int" -> v.i # 0
      [] v.t = "bool" -> v.b
      [] v.t = "str" -> v.s # ""
      [] v.t = "dict" -> DOMAIN v.d # {}
      [] v.t = "list" -> Len(v.items) # 0

\* Python `v == True`: true for True and for the number 1.
EqTrue(v) ==
    CASE v.t = "bool" -> v.b
      [] v.t = "int" -> v.i = 1
      [] OTHER -> FALSE

\* dict.get(key, default)
DictGet(d, key, default) == IF key \in DOMAIN d THEN d[key] ELSE default

Digit(d) == SubSeq("0123456789", d + 1, d + 1)

RECURSIVE NatToStr(_)
NatToStr(n) == IF n < 10 THEN Digit(n) ELSE NatToStr(n \div 10) \o Digit(n % 10)

\* str() of a Python int, which is what '{0}'.format gives for it.
IntToStr(n) == IF n < 0 THEN "-" \o NatToStr(-n) ELSE NatToStr(n)

RECURSIVE format_from(_, _, _, _)
format_from(fmt, i, a0, a1) ==
    IF i > Len(fmt) THEN ""
    ELSE IF i + 2 <= Len(fmt) /\ SubSeq(fmt, i, i + 2) = "{0}"
         THEN IntToStr(a0) \o format_from(fmt, i + 3, a0, a1)
    ELSE IF i + 2 <= Len(fmt) /\ SubSeq(fmt, i, i + 2) = "{1}"
         THEN IntToStr(a1) \o format_from(fmt, i + 3, a0, a1)
    ELSE SubSeq(fmt, i, i) \o format_from(fmt, i + 1, a0, a1)

\* A bug str_format could have: the two arguments taken in the wrong order.
str_format_swapped(fmt, a0, a1) == format_from(fmt, 1, a1, a0)

\* str.format(fmt, a0, a1) for the fields {0} and {1}.
str_format(fmt, a0, a1) == format_from(fmt, 1, a0, a1)

-----------------------------------------------------------------------------
(* Enumerations and the mode-joining helper *)

RouteModes == {"RouteMode.car", "RouteMode.pedestrian", "RouteMode.publicTransport",
               "RouteMode.truck", "RouteMode.fastest"}

\* RouteMode.__str__: the enumerator's string value.
RouteModeStr(m) ==
    CASE m = "RouteMode.car" -> "car"
      [] m = "RouteMode.pedestrian" -> "pedestrian"
      [] m = "RouteMode.publicTransport" -> "publicTransport"
      [] m = "RouteMode.truck" -> "truck"
      [] m = "RouteMode.fastest" -> "fastest"

RECURSIVE append_modes(_, _)
append_modes(modes, i) ==
    IF i = 0 THEN ""
    ELSE append_modes(modes, i - 1) \o RouteModeStr(modes[i]) \o ";"

\* s[:-1]
DropLast(s) == IF Len(s) = 0 THEN s ELSE SubSeq(s, 1, Len(s) - 1)

\* A bug the helper could have: it consumes the list it is given (modes.pop()).
modes_after_prepare_consumed(modes) == <<>>

\* The list object `modes` after the helper ran: the loop only reads it.
modes_after_prepare(modes) == modes

\* A bug the helper could have: the trailing separator is not cut off.
prepare_mode_values_untrimmed(modes) == append_modes(modes, Len(modes))

__prepare_mode_values(modes) == DropLast(append_modes(modes, Len(modes)))

-----------------------------------------------------------------------------
(* Construction and the credential setter *)

DefaultTimeout == 20

_baseUrl == "https://route.cit.api.here.com/routing/7.2/calculateroute.json"

\* A bug the setter could have: the code field takes the id.
SetCredentialsFieldsMixed(app_id, app_code) == <<app_id, app_id>>

\* The fields <<_app_id, _app_code>> after SetCredentials(app_id, app_code).
SetCredentialsFields(app_id, app_code) == <<app_id, app_code>>

\* The field _timeout after __init__(.., timeout): the argument itself when it
\* is truthy, whatever its type, and otherwise 20.
InitTimeout(timeout) == IF Truthy(timeout) THEN timeout ELSE PyInt(DefaultTimeout)

InitialDefaults ==
    [CarRoute |-> <<"RouteMode.car", "RouteMode.fastest">>,
     PedastrianRoute |-> <<"RouteMode.pedestrian", "RouteMode.fastest">>,
     IntermediateRoute |-> <<"RouteMode.car", "RouteMode.fastest">>,
     PublicTransport |-> <<"RouteMode.publicTransport", "RouteMode.fastest">>,
     LocationNearMotorway |-> <<"RouteMode.car", "RouteMode.fastest">>,
     TruckRoute |-> <<"RouteMode.truck", "RouteMode.fastest">>]

RoutingOps == DOMAIN InitialDefaults

-----------------------------------------------------------------------------
(* Inputs the operations are called with *)

AppIds == {"app_id", "id2"}
AppCodes == {"app_code", "code2"}
TimeoutArgs == {PyNone, PyInt(0), PyInt(5), PyDict(<<>>), PyList(<<>>)}

\* [latitude, longitude]
Waypoints == {<<52, 13>>, <<-7, 0>>}

ModeLists == {<<>>,
              <<"RouteMode.truck">>,
              <<"RouteMode.pedestrian", "RouteMode.fastest">>,
              <<"RouteMode.fastest", "RouteMode.car", "RouteMode.publicTransport">>}

\* The `modes` argument: left out, or a list.
ModesArgs == {[given |-> FALSE]} \cup {[given |-> TRUE, list |-> l] : l \in ModeLists}

CombineChangeArgs == {PyBool(TRUE), PyBool(FALSE), PyInt(1), PyNone, PyStr("true")}

\* The list the parameter `modes` is bound to in a call of `op`.
BoundModes(op, m) == IF m.given THEN m.list ELSE defaults[op]

-----------------------------------------------------------------------------
(* The parameter mapping each public operation assembles *)

CarRouteData(waypoint_a, waypoint_b, modes) ==
    [waypoint0 |-> str_format("{0},{1}", waypoint_a[1], waypoint_a[2]),
     waypoint1 |-> str_format("{0},{1}", waypoint_b[1], waypoint_b[2]),
     mode |-> __prepare_mode_values(modes),
     app_id |-> _app_id,
     app_code |-> _app_code,
     departure |-> "now"]

PedastrianRouteData(waypoint_a, waypoint_b, modes) ==
    [waypoint0 |-> str_format("{0},{1}", waypoint_a[1], waypoint_a[2]),
     waypoint1 |-> str_format("{0},{1}", waypoint_b[1], waypoint_b[2]),
     mode |-> __prepare_mode_values(modes),
     app_id |-> _app_id,
     app_code |-> _app_code]

IntermediateRouteData(waypoint_a, waypoint_b, waypoint_c, modes) ==
    [waypoint0 |-> str_format("{0},{1}", waypoint_a[1], waypoint_a[2]),
     waypoint1 |-> str_format("{0},{1}", waypoint_b[1], waypoint_b[2]),
     waypoint2 |-> str_format("{0},{1}", waypoint_c[1], waypoint_c[2]),
     mode |-> __prepare_mode_values(modes),
     app_id |-> _app_id,
     app_code |-> _app_code]

\* A bug PublicTransport could have: a boolean flag is written with str().
PublicTransportDataNative(waypoint_a, waypoint_b, combine_change, modes) ==
    [waypoint0 |-> str_format("{0},{1}", waypoint_a[1], waypoint_a[2]),
     waypoint1 |-> str_format("{0},{1}", waypoint_b[1], waypoint_b[2]),
     mode |-> __prepare_mode_values(modes),
     combine_change |-> (IF combine_change.t = "bool"
                         THEN (IF combine_change.b THEN "True" ELSE "False")
                         ELSE "false"),
     app_id |-> _app_id,
     app_code |-> _app_code]

PublicTransportData(waypoint_a, waypoint_b, combine_change, modes) ==
    [waypoint0 |-> str_format("{0},{1}", waypoint_a[1], waypoint_a[2]),
     waypoint1 |-> str_format("{0},{1}", waypoint_b[1], waypoint_b[2]),
     mode |-> __prepare_mode_values(modes),
     combine_change |-> (IF EqTrue(combine_change) THEN "true" ELSE "false"),
     app_id |-> _app_id,
     app_code |-> _app_code]

LocationNearMotorwayData(waypoint_a, waypoint_b, modes) ==
    [waypoint0 |-> str_format("{0},{1}", waypoint_a[1], waypoint_a[2]),
     waypoint1 |-> str_format("street!!{0},{1}", waypoint_b[1], waypoint_b[2]),
     mode |-> __prepare_mode_values(modes),
     app_id |-> _app_id,
     app_code |-> _app_code]

TruckRouteData(waypoint_a, waypoint_b, modes) ==
    [waypoint0 |-> str_format("{0},{1}", waypoint_a[1], waypoint_a[2]),
     waypoint1 |-> str_format("{0},{1}", waypoint_b[1], waypoint_b[2]),
     mode |-> __prepare_mode_values(modes),
     app_id |-> _app_id,
     app_code |-> _app_code]

-----------------------------------------------------------------------------
(* The transport's replies and the dispatch of __get *)

NoCall == [none |-> "call"]
NoRequest == [none |-> "request"]
NoReply == [none |-> "reply"]
NoOutcome == [none |-> "outcome"]
NoResult == [done |-> FALSE]

HttpStatuses == {200, 401}

ResponseValues == {PyNone, PyDict([route |-> PyList(<<>>)])}
DetailsValues == {PyNone, PyStr("invalid credentials")}

\* The JSON objects a body can decode to: `response` and `details` each absent,
\* null or set.
JsonObjects ==
    UNION {[K -> {PyNone}] : K \in SUBSET {"response", "details"}}
    \cup {[response |-> r] : r \in ResponseValues}
    \cup {[details |-> d] : d \in DetailsValues}
    \cup {[response |-> r, details |-> d] : r \in ResponseValues, d \in DetailsValues}

\* response.content: bytes that are not UTF-8, text that is not JSON, or a JSON
\* document (an object, or something else such as an array).
Contents ==
    {[k |-> "not_utf8"], [k |-> "not_json"], [k |-> "json", doc |-> PyList(<<>>)]}
    \cup {[k |-> "json", doc |-> PyDict(d)] : d \in JsonObjects}

\* What requests.get does: raise, or return a response.
Replies ==
    {[t |-> "raise", exc |-> "requests.Timeout"]}
    \cup {[t |-> "http", status |-> st, content |-> c] : st \in HttpStatuses, c \in Contents}

Raised(exc) == [kind |-> "raised", exc |-> exc]

\* RoutingResponse.new_from_jsondict(jsonData)
RoutingResponse_new_from_jsondict(jsonData) == [kind |-> "RoutingResponse", json |-> jsonData]

\* HEREError(message)
HEREError(message) == [kind |-> "HEREError", message |-> message]

\* A bug __get could have: the error is raised, not returned.
dispatch_raising(jsonData, co_name) ==
    IF DictGet(jsonData, "response", PyNone) # PyNone
    THEN RoutingResponse_new_from_jsondict(jsonData)
    ELSE Raised("HEREError")

\* A bug __get could have: the frame inspected is __get's own.
dispatch_own_frame(jsonData, co_name) ==
    IF DictGet(jsonData, "response", PyNone) # PyNone
    THEN RoutingResponse_new_from_jsondict(jsonData)
    ELSE HEREError(DictGet(jsonData, "details", PyStr("Error occured on " \o "__get")))

\* The branch of __get on the decoded object; co_name is
\* sys._getframe(1).f_code.co_name, the name of the operation that called __get.
dispatch(jsonData, co_name) ==
    IF DictGet(jsonData, "response", PyNone) # PyNone
    THEN RoutingResponse_new_from_jsondict(jsonData)
    ELSE HEREError(DictGet(jsonData, "details", PyStr("Error occured on " \o co_name)))

\* A bug __get could have: a reply that is not 200 is taken for an error.
get_checking_status(response, co_name) ==
    IF response.t = "raise" THEN Raised(response.exc)
    ELSE IF response.content.k = "not_utf8" THEN Raised("UnicodeDecodeError")
    ELSE IF response.content.k = "not_json" THEN Raised("ValueError")
    ELSE IF response.content.doc.t # "dict" THEN Raised("AttributeError")
    ELSE IF response.status # 200 THEN HEREError(PyStr("Error occured on " \o co_name))
    ELSE dispatch(response.content.doc.d, co_name)

\* __get from the return of requests.get on: what the call returns or raises.
__get(response, co_name) ==
    IF response.t = "raise" THEN Raised(response.exc)
    ELSE IF response.content.k = "not_utf8" THEN Raised("UnicodeDecodeError")
    ELSE IF response.content.k = "not_json" THEN Raised("ValueError")
    ELSE IF response.content.doc.t # "dict" THEN Raised("AttributeError")
    ELSE dispatch(response.content.doc.d, co_name)

-----------------------------------------------------------------------------
(* The weather client exercised by tests/test_destination_weather_api.py *)

WeatherBaseUrl == "https://weather.api.here.com/weather/1.0/report.json"

WeatherProducts == {"WeatherProductType.forecast_7days", "WeatherProductType.alerts"}

\* The bodies the tests stub, all served with status 200: a forecast, and the
\* two error payloads, told apart by the text of their message.
WeatherBodies ==
    {[forecasts |-> PyList(<<>>)],
     [Type |-> PyStr("Invalid Request"), Message |-> PyStr("unknown product")],
     [Type |-> PyStr("Unauthorized"), Message |-> PyStr("invalid app_id")]}

WeatherReplies == {[t |-> "http", status |-> 200, content |-> [k |-> "json", doc |-> PyDict(d)]] :
                     d \in WeatherBodies}

\* A slip the weather dispatch could have: the error is returned, not raised.
weather_get_returning(response) ==
    IF "Type" \in DOMAIN response.content.doc.d
    THEN HEREError(response.content.doc.d.Message)
    ELSE [kind |-> "DestinationWeatherResponse", json |-> response.content.doc.d]

\* The weather client's GET-and-dispatch: a typed error is raised for an error
\* payload, chosen by its text; the status is not looked at.
weather_get(response) ==
    LET d == response.content.doc.d IN
    IF "Type" \in DOMAIN d /\ d.Type = PyStr("Invalid Request") THEN Raised("InvalidRequestError")
    ELSE IF "Type" \in DOMAIN d /\ d.Type = PyStr("Unauthorized") THEN Raised("UnauthorizedError")
    ELSE [kind |-> "DestinationWeatherResponse", json |-> d]

-----------------------------------------------------------------------------
(* The state machine *)

\* RoutingApi(app_id, app_code, timeout)
Init ==
    \E app_id \in AppIds, app_code \in AppCodes, timeout \in TimeoutArgs :
        /\ _app_id = SetCredentialsFields(app_id, app_code)[1]
        /\ _app_code = SetCredentialsFields(app_id, app_code)[2]
        /\ _timeout = InitTimeout(timeout)
        /\ ctor = [app_id |-> app_id, app_code |-> app_code, timeout |-> timeout]
        /\ supplied = [app_id |-> app_id, app_code |-> app_code, by |-> "__init__"]
        /\ defaults = InitialDefaults
        /\ pc = "idle"
        /\ call = NoCall
        /\ request = NoRequest
        /\ caller = "none"
        /\ reply = NoReply
        /\ outcome = NoOutcome
        /\ modes_in = <<>>
        /\ mode_values = NoResult

SetCredentials ==
    \E app_id \in AppIds, app_code \in AppCodes :
        /\ pc = "idle"
        /\ _app_id' = SetCredentialsFields(app_id, app_code)[1]
        /\ _app_code' = SetCredentialsFields(app_id, app_code)[2]
        /\ supplied' = [app_id |-> app_id, app_code |-> app_code, by |-> "SetCredentials"]
        /\ UNCHANGED <<_timeout, defaults, ctor, pc, call, request, caller, reply,
                       outcome, modes_in, mode_values>>

\* A public operation up to the point where __get blocks in requests.get: the
\* parameters are assembled and the GET is sent with the instance's timeout.
Send(op, args, m, data) ==
    /\ pc = "idle"
    /\ pc' = "waiting"
    /\ call' = [api |-> "routing", op |-> op, args |-> args, modes |-> m]
    /\ request' = [url |-> _baseUrl, params |-> data, timeout |-> _timeout]
    /\ defaults' = IF m.given THEN defaults
                   ELSE [defaults EXCEPT ![op] = modes_after_prepare(defaults[op])]
    /\ reply' = NoReply
    /\ outcome' = NoOutcome
    /\ UNCHANGED <<_app_id, _app_code, _timeout, ctor, supplied, caller,
                   modes_in, mode_values>>

CarRoute ==
    \E waypoint_a \in Waypoints, waypoint_b \in Waypoints, m \in ModesArgs :
        Send("CarRoute", [waypoints |-> <<waypoint_a, waypoint_b>>], m,
             CarRouteData(waypoint_a, waypoint_b, BoundModes("CarRoute", m)))

PedastrianRoute ==
    \E waypoint_a \in Waypoints, waypoint_b \in Waypoints, m \in ModesArgs :
        Send("PedastrianRoute", [waypoints |-> <<waypoint_a, waypoint_b>>], m,
             PedastrianRouteData(waypoint_a, waypoint_b, BoundModes("PedastrianRoute", m)))

IntermediateRoute ==
    \E waypoint_a \in Waypoints, waypoint_b \in Waypoints, waypoint_c \in Waypoints,
       m \in ModesArgs :
        Send("IntermediateRoute", [waypoints |-> <<waypoint_a, waypoint_b, waypoint_c>>], m,
             IntermediateRouteData(waypoint_a, waypoint_b, waypoint_c,
                                   BoundModes("IntermediateRoute", m)))

PublicTransport ==
    \E waypoint_a \in Waypoints, waypoint_b \in Waypoints,
       combine_change \in CombineChangeArgs, m \in ModesArgs :
        Send("PublicTransport",
             [waypoints |-> <<waypoint_a, waypoint_b>>, combine_change |-> combine_change], m,
             PublicTransportData(waypoint_a, waypoint_b, combine_change,
                                 BoundModes("PublicTransport", m)))

LocationNearMotorway ==
    \E waypoint_a \in Waypoints, waypoint_b \in Waypoints, m \in ModesArgs :
        Send("LocationNearMotorway", [waypoints |-> <<waypoint_a, waypoint_b>>], m,
             LocationNearMotorwayData(waypoint_a, waypoint_b,
                                      BoundModes("LocationNearMotorway", m)))

TruckRoute ==
    \E waypoint_a \in Waypoints, waypoint_b \in Waypoints, m \in ModesArgs :
        Send("TruckRoute", [waypoints |-> <<waypoint_a, waypoint_b>>], m,
             TruckRouteData(waypoint_a, waypoint_b, BoundModes("TruckRoute", m)))

\* requests.get returns or raises, and __get runs to its end: the call is over.
Receive ==
    \E response \in Replies :
        /\ pc = "waiting"
        /\ call.api = "routing"
        /\ pc' = "idle"
        /\ reply' = response
        /\ outcome' = __get(response, call.op)
        /\ caller' = call.op
        /\ call' = NoCall
        /\ request' = NoRequest
        /\ UNCHANGED <<_app_id, _app_code, _timeout, defaults, ctor, supplied,
                       modes_in, mode_values>>

\* DestinationWeatherApi('app_id', 'app_code').weather_for_location_name(name, product)
weather_for_location_name ==
    \E location_name \in {"Berlin"}, product \in WeatherProducts :
        /\ pc = "idle"
        /\ pc' = "waiting"
        /\ call' = [api |-> "weather", op |-> "weather_for_location_name",
                    args |-> [location_name |-> location_name, product |-> product]]
        /\ request' = [url |-> WeatherBaseUrl,
                       params |-> [app_id |-> "app_id", app_code |-> "app_code",
                                   product |-> product, name |-> location_name],
                       timeout |-> PyInt(DefaultTimeout)]
        /\ reply' = NoReply
        /\ outcome' = NoOutcome
        /\ UNCHANGED <<_app_id, _app_code, _timeout, defaults, ctor, supplied, caller,
                       modes_in, mode_values>>

WeatherReceive ==
    \E response \in WeatherReplies :
        /\ pc = "waiting"
        /\ call.api = "weather"
        /\ pc' = "idle"
        /\ reply' = response
        /\ outcome' = weather_get(response)
        /\ caller' = call.op
        /\ call' = NoCall
        /\ request' = NoRequest
        /\ UNCHANGED <<_app_id, _app_code, _timeout, defaults, ctor, supplied,
                       modes_in, mode_values>>

Next ==
    \/ SetCredentials
    \/ CarRoute
    \/ PedastrianRoute
    \/ IntermediateRoute
    \/ PublicTransport
    \/ LocationNearMotorway
    \/ TruckRoute
    \/ Receive
    \/ weather_for_location_name
    \/ WeatherReceive

Spec == Init /\ [][Next]_vars

-----------------------------------------------------------------------------
(* The mode-joining helper on its own, over every list up to MaxModes long *)

MaxModes == 3

ModeSeqs == UNION {[1..n -> RouteModes] : n \in 0..MaxModes}

InitModes ==
    /\ modes_in \in ModeSeqs
    /\ mode_values = NoResult
    /\ _app_id = "app_id"
    /\ _app_code = "app_code"
    /\ _timeout = PyInt(DefaultTimeout)
    /\ ctor = [app_id |-> "app_id", app_code |-> "app_code", timeout |-> PyNone]
    /\ supplied = [app_id |-> "app_id", app_code |-> "app_code", by |-> "__init__"]
    /\ defaults = InitialDefaults
    /\ pc = "idle"
    /\ call = NoCall
    /\ request = NoRequest
    /\ caller = "none"
    /\ reply = NoReply
    /\ outcome = NoOutcome

PrepareModes ==
    /\ mode_values = NoResult
    /\ mode_values' = [done |-> TRUE, value |-> __prepare_mode_values(modes_in)]
    /\ modes_in' = modes_after_prepare(modes_in)
    /\ UNCHANGED <<_app_id, _app_code, _timeout, defaults, ctor, supplied, pc, call,
                   request, caller, reply, outcome>>

NextModes == PrepareModes

SpecModes == InitModes /\ [][NextModes]_vars

-----------------------------------------------------------------------------
(* Vocabulary of the properties *)

\* A routing GET is in flight.
InFlight == pc = "waiting" /\ call.api = "routing"

\* The last thing that happened to a call is that a routing operation ended.
Ended == pc = "idle" /\ caller \in RoutingOps

\* The transport delivered a body that decodes to a JSON object.
IsJsonObject(r) == r.t = "http" /\ r.content.k = "json" /\ r.content.doc.t = "dict"

ReplyDoc == reply.content.doc.d

IsOutcomeOfCall(o) == o.kind \in {"RoutingResponse", "HEREError"}

\* "<lat>,<lon>"
WaypointText(w) == IntToStr(w[1]) \o "," \o IntToStr(w[2])

HasNoWhitespace(s) == \A i \in 1..Len(s) : SubSeq(s, i, i) # " "

EndsWith(s, suffix) ==
    Len(s) >= Len(suffix) /\ SubSeq(s, Len(s) - Len(suffix) + 1, Len(s)) = suffix

RECURSIVE SplitFrom(_, _, _)
SplitFrom(s, i, piece) ==
    IF i > Len(s) THEN <<piece>>
    ELSE IF SubSeq(s, i, i) = ";" THEN <<piece>> \o SplitFrom(s, i + 1, "")
    ELSE SplitFrom(s, i + 1, piece \o SubSeq(s, i, i))

\* The pieces of s between its `;` characters.
Split(s) == SplitFrom(s, 1, "")

-----------------------------------------------------------------------------
(* Properties *)

\* C1 (as stated): every call of a public routing operation, whatever the
\* transport and the body do, ends with a response model or an API error.
C1_EveryCallEndsWithModelOrError == Ended => IsOutcomeOfCall(outcome)

\* C1 (amended): a call whose reply body decodes to a JSON object ends with
\* exactly one of a response model and an API error; a call whose transport
\* fails or whose body is not a JSON object ends with a raised exception, which
\* is neither.
C1_ObjectReplyEndsWithModelOrError ==
    Ended => /\ IsJsonObject(reply) => IsOutcomeOfCall(outcome)
             /\ ~IsJsonObject(reply) => outcome.kind = "raised"

C1_Witness ==
    /\ Ended
    /\ IsJsonObject(reply)
    /\ outcome.kind = "HEREError"

\* C2 (as stated): a body with a top-level `response` key yields, for every HTTP
\* status, the response model built from that body.
C2_ResponseKeyYieldsModel ==
    (Ended /\ IsJsonObject(reply) /\ "response" \in DOMAIN ReplyDoc)
        => outcome = [kind |-> "RoutingResponse", json |-> ReplyDoc]

\* C2 (amended): a body with a top-level `response` key whose value is not null
\* yields, for every HTTP status, the response model built from that body.
C2_NonNullResponseYieldsModel ==
    (Ended /\ IsJsonObject(reply) /\ "response" \in DOMAIN ReplyDoc
           /\ ReplyDoc.response # PyNone)
        => outcome = [kind |-> "RoutingResponse", json |-> ReplyDoc]

C2_Witness ==
    /\ Ended
    /\ IsJsonObject(reply)
    /\ reply.status = 401
    /\ "response" \in DOMAIN ReplyDoc
    /\ ReplyDoc.response # PyNone
    /\ outcome.kind = "RoutingResponse"

\* C3: a body without the top-level `response` key yields an API error whose
\* message is the body's `details` when present and otherwise a text ending in
\* the name of the public operation called; never a response model.
C3_ErrorMessageFromDetailsOrOperation ==
    (Ended /\ IsJsonObject(reply) /\ "response" \notin DOMAIN ReplyDoc)
        => /\ outcome.kind = "HEREError"
           /\ IF "details" \in DOMAIN ReplyDoc
              THEN outcome.message = ReplyDoc.details
              ELSE /\ outcome.message.t = "str"
                   /\ EndsWith(outcome.message.s, caller)

C3_Witness ==
    /\ Ended
    /\ IsJsonObject(reply)
    /\ DOMAIN ReplyDoc = {}
    /\ caller = "CarRoute"
    /\ outcome = HEREError(PyStr("Error occured on CarRoute"))

\* C4 (as stated): for every public routing operation the parameters hold
\* waypoint0 = "<latA>,<lonA>" and waypoint1 = "<latB>,<lonB>".
C4_WaypointsAreLatLon ==
    InFlight => /\ request.params.waypoint0 = WaypointText(call.args.waypoints[1])
                /\ request.params.waypoint1 = WaypointText(call.args.waypoints[2])

\* C4 (amended): for every public routing operation the parameters hold
\* waypoint0 = "<latA>,<lonA>", and waypoint1 = "<latB>,<lonB>" except for
\* LocationNearMotorway, where waypoint1 = "street!!<latB>,<lonB>"; neither
\* holds whitespace.
C4_WaypointsAreLatLonButMotorway ==
    InFlight =>
        /\ {"waypoint0", "waypoint1"} \subseteq DOMAIN request.params
        /\ request.params.waypoint0 = WaypointText(call.args.waypoints[1])
        /\ request.params.waypoint1 =
               IF call.op = "LocationNearMotorway"
               THEN "street!!" \o WaypointText(call.args.waypoints[2])
               ELSE WaypointText(call.args.waypoints[2])
        /\ HasNoWhitespace(request.params.waypoint0)
        /\ HasNoWhitespace(request.params.waypoint1)

C4_Witness ==
    /\ InFlight
    /\ call.op = "LocationNearMotorway"
    /\ call.args.waypoints = <<(<<52, 13>>), (<<-7, 0>>)>>
    /\ request.params.waypoint0 = "52,13"
    /\ request.params.waypoint1 = "street!!-7,0"

\* C5: the stored credentials are always the pair most recently supplied, by
\* the constructor or the latest SetCredentials, and every issued request
\* carries that pair as app_id and app_code.
C5_RequestsCarryLatestCredentials ==
    /\ _app_id = supplied.app_id
    /\ _app_code = supplied.app_code
    /\ InFlight => /\ request.params.app_id = supplied.app_id
                   /\ request.params.app_code = supplied.app_code

C5_Witness ==
    /\ InFlight
    /\ caller \in RoutingOps
    /\ supplied.by = "SetCredentials"
    /\ supplied.app_id # ctor.app_id
    /\ supplied.app_code # ctor.app_code
    /\ request.params.app_id = supplied.app_id

\* C6: for a non-empty list of modes the joined value neither starts nor ends
\* with `;`, and its pieces between `;` are the modes' string forms in order.
C6_ModesJoinedBySemicolon ==
    (mode_values # NoResult /\ Len(modes_in) > 0)
        => /\ SubSeq(mode_values.value, 1, 1) # ";"
           /\ ~EndsWith(mode_values.value, ";")
           /\ Split(mode_values.value) = [i \in 1..Len(modes_in) |-> RouteModeStr(modes_in[i])]

C6_Witness ==
    /\ mode_values # NoResult
    /\ modes_in = <<"RouteMode.truck", "RouteMode.car", "RouteMode.fastest">>
    /\ mode_values.value = "truck;car;fastest"

\* C7: the default mode lists never change, and a CarRoute call without modes
\* issues mode = "car;fastest" and departure = "now" whatever preceded it.
C7_DefaultCarRouteModes ==
    /\ defaults = InitialDefaults
    /\ (InFlight /\ call.op = "CarRoute" /\ ~call.modes.given)
           => /\ request.params.mode = "car;fastest"
              /\ "departure" \in DOMAIN request.params
              /\ request.params.departure = "now"

C7_Witness ==
    /\ InFlight
    /\ call.op = "CarRoute"
    /\ ~call.modes.given
    /\ caller = "CarRoute"
    /\ request.params.mode = "car;fastest"

\* C8: the combine_change parameter is "true" or "false" for every argument,
\* "true" for the boolean true and "false" for the boolean false.
C8_CombineChangeIsTrueOrFalse ==
    (InFlight /\ call.op = "PublicTransport")
        => /\ request.params.combine_change \in {"true", "false"}
           /\ call.args.combine_change = PyBool(TRUE)
                  => request.params.combine_change = "true"
           /\ call.args.combine_change = PyBool(FALSE)
                  => request.params.combine_change = "false"

C8_Witness ==
    /\ InFlight
    /\ call.op = "PublicTransport"
    /\ call.args.combine_change = PyBool(TRUE)
    /\ request.params.combine_change = "true"

\* C9: every GET uses the timeout supplied at construction whenever one was
\* supplied, and 20 when none was.
C9_TimeoutIsTheOneSupplied ==
    InFlight => request.timeout = IF ctor.timeout = PyNone
                                  THEN PyInt(DefaultTimeout)
                                  ELSE ctor.timeout

\* C10: weather_for_location_name answered, with status 200, by an
\* invalid-request payload raises InvalidRequestError, and by an unauthorized
\* payload raises UnauthorizedError.
C10_WeatherErrorsAreRaisedTyped ==
    (pc = "idle" /\ caller = "weather_for_location_name" /\ reply.status = 200
                 /\ "Type" \in DOMAIN ReplyDoc)
        => /\ ReplyDoc.Type = PyStr("Invalid Request")
                  => outcome = Raised("InvalidRequestError")
           /\ ReplyDoc.Type = PyStr("Unauthorized")
                  => outcome = Raised("UnauthorizedError")

C10_Witness ==
    /\ pc = "idle"
    /\ caller = "weather_for_location_name"
    /\ reply.status = 200
    /\ "Type" \in DOMAIN ReplyDoc
    /\ ReplyDoc.Type = PyStr("Unauthorized")
    /\ outcome = Raised("UnauthorizedError")

====
